---- MODULE Spec2Model ----
(***************************************************************************)
(* Model of the services of Task5-KodeCamp.                                *)
(*                                                                         *)
(* The shopping service (src/task_2_shopping_api/cart.py, main.py and      *)
(* 'main .py'): the cart store, its JSON file and the request handlers of  *)
(* the cart endpoints.  The student service (task_1_student_api), the job  *)
(* application tracker (task_3_job_application_tracker), the notes service *)
(* (task_4_notes_app) and the contact service (task_5_simple_contact_api): *)
(* their stores and request handlers.  Each service is a program of its    *)
(* own: a specification runs one of them and leaves the variables of the   *)
(* others as their modules define them.                                    *)
(*                                                                         *)
(* Money is counted in tenths of a cent, so that a price of whole cents    *)
(* is a multiple of 10 and round(x, 2) is rounding to a multiple of 10.    *)
(* A Python dict is a sequence of entries [key, item] in insertion order.  *)
(***************************************************************************)
EXTENDS Integers, Sequences, FiniteSets, TLC

VARIABLES
    cart_db,    \* cart.cart_db of the server process: the in-memory cart
    cart_file,  \* content of cart.json
    now,        \* datetime.now(), as a logical clock
    last,       \* the request answered last: its inputs, what the cart returned, the answer
    wpc,        \* worker processes: where each worker is in add_to_cart
    wmem,       \* worker processes: cart.cart_db of each worker
    wreq,       \* worker processes: the add each worker serves, or served last
    writer,     \* worker processes: the worker whose save wrote the file last
    added,      \* worker processes: per product, the quantities of the adds that returned
    main_cart_db,   \* 'main .py': the dict its imported name cart_db is bound to
    students_db,    \* student service: students_db, key -> Student
    students_file,  \* student service: content of students.json
    student_last,   \* student service: the request answered last
    contacts_db,      \* contact service: contacts_db, id -> contact
    contacts_next_id, \* contact service: next_id
    contact_last,     \* contact service: the request answered last
    contact_ids,      \* contact service: the ids the creates handed out, in order
    deleted_ids,      \* contact service: the ids whose delete was answered 204
    applications_db,      \* job tracker: applications_db, the list of applications
    applications_next_id, \* job tracker: next_id
    applications_file,    \* job tracker: content of applications.json
    application_last,     \* job tracker: the request answered last
    notes_dir,      \* notes service: the notes directory, note id -> dict of the file
    uuid_calls,     \* notes service: how many ids uuid4 has made
    note_last       \* notes service: the request answered last

shopVars == <<cart_db, last>>
concVars == <<wpc, wmem, wreq, writer, added>>
studentVars == <<students_db, students_file, student_last>>
contactVars == <<contacts_db, contacts_next_id, contact_last, contact_ids, deleted_ids>>
jobVars == <<applications_db, applications_next_id, applications_file,
             application_last>>
noteVars == <<notes_dir, uuid_calls, note_last>>
\* the variables of the services other than the shopping service
otherVars == <<studentVars, contactVars, jobVars, noteVars>>
\* the variables of the shopping service
cartVars == <<cart_db, cart_file, now, last, concVars, main_cart_db>>
vars == <<cart_db, cart_file, now, last, wpc, wmem, wreq, writer, added,
          main_cart_db,
          students_db, students_file, student_last,
          contacts_db, contacts_next_id, contact_last, contact_ids, deleted_ids,
          applications_db, applications_next_id, applications_file,
          application_last,
          notes_dir, uuid_calls, note_last>>

----------------------------------------------------------------------------
(* Bounds of the model *)

\* adds are served while the clock, which starts at 1, is below MaxClock
MaxClock == 3
\* quantities of one add request are 1..MaxQty
MaxQty == 2
\* the contact service answers creates while next_id is below MaxContacts
MaxContacts == 3
\* the tracker answers creates while it holds fewer than MaxApplications
MaxApplications == 3
\* the notes service answers creates while uuid4 has made fewer than MaxNotes ids
MaxNotes == 1

----------------------------------------------------------------------------
(* Catalog and conversions *)

\* products_db after load_products_data: id -> product (price 0.05 and 0.03)
products_db ==
    (1 :> [id |-> 1, name |-> "apple", price |-> 50]) @@
    (2 :> [id |-> 2, name |-> "bread", price |-> 30])

\* product_id in products_db
InCatalog(product_id) == product_id \in DOMAIN products_db

\* product ids a request can carry (Query(..., gt=0)); 3 is in no catalog entry
RequestIds == {1, 2, 3}

\* str(product_id)
str(n) ==
    CASE n = 1 -> "1"
      [] n = 2 -> "2"
      [] n = 3 -> "3"

\* int(product_id_str): the number, or ok = FALSE where int() raises ValueError
int(s) ==
    IF \E n \in RequestIds : str(n) = s
    THEN [ok |-> TRUE, value |-> CHOOSE n \in RequestIds : str(n) = s]
    ELSE [ok |-> FALSE, value |-> 0]

\* round(x, 2), x in tenths of a cent: to the nearest cent, ties to the even cent
round2(x) ==
    LET q == x \div 10
        r == x % 10
    IN  IF r < 5 THEN q * 10
        ELSE IF r > 5 THEN (q + 1) * 10
        ELSE IF q % 2 = 0 THEN q * 10 ELSE (q + 1) * 10

----------------------------------------------------------------------------
(* Python dict operations on a sequence of entries *)

Keys(d) == {d[i].key : i \in 1..Len(d)}

Index(d, k) == CHOOSE i \in 1..Len(d) : d[i].key = k

\* d[k]
Item(d, k) == d[Index(d, k)].item

\* d.get(k, {}).get('quantity', 0)
QuantityOf(d, k) == IF k \in Keys(d) THEN Item(d, k).quantity ELSE 0

\* d[k] = v on a list of pairs, not a dict: always one more entry
SetItemAppend(d, k, v) == Append(d, [key |-> k, item |-> v])

\* d[k] = v: in place for a key already there, appended for a new key
SetItem(d, k, v) ==
    IF k \in Keys(d)
    THEN [d EXCEPT ![Index(d, k)] = [key |-> k, item |-> v]]
    ELSE Append(d, [key |-> k, item |-> v])

----------------------------------------------------------------------------
(* The cart file *)

EmptyDict == <<>>

FileOf(d) == [kind |-> "dict", data |-> d]
AbsentFile == [kind |-> "absent", data |-> EmptyDict]
CorruptFile == [kind |-> "corrupt", data |-> EmptyDict]
NonDictFile == [kind |-> "nondict", data |-> EmptyDict]

\* load_cart_data: the value cart_db is rebound to
load_cart_data(f) ==
    IF f.kind = "dict" THEN f.data ELSE EmptyDict

\* what a call of save_cart_data can do to the file: write it, fail to open it
\* (file untouched), or fail after open(CART_FILE, "w") truncated it
SaveOutcomes == {"ok", "open_failed", "write_failed"}

\* save_cart_data opening the file with mode "a": what it writes follows what the
\* file held, and the file no longer parses unless there was none
save_cart_data_append(d, f, o) ==
    CASE o = "ok" -> IF f.kind = "absent" THEN FileOf(d) ELSE CorruptFile
      [] o = "open_failed" -> f
      [] o = "write_failed" -> CorruptFile

\* save_cart_data: the file after saving d with outcome o; the exception is swallowed
save_cart_data(d, f, o) ==
    CASE o = "ok" -> FileOf(d)
      [] o = "open_failed" -> f
      [] o = "write_failed" -> CorruptFile

----------------------------------------------------------------------------
(* cart.py: the cart store.  Each operator gives what the function leaves  *)
(* in cart.cart_db and in the file, and what it returns.                   *)

\* the value of cart_db[product_id_str] that add_to_cart builds at time t
NewItem(product_id, new_qty, t) ==
    [product_id |-> product_id,
     quantity |-> new_qty,
     name |-> products_db[product_id].name,
     price |-> products_db[product_id].price,
     updated_at |-> t]

\* add_to_cart without its call of load_cart_data: it goes on from the cart the
\* process holds in memory
add_to_cart_no_load(product_id, quantity, f, t, o) ==
    LET loaded == cart_db
        product_id_str == str(product_id)
    IN  IF ~InCatalog(product_id)
        THEN [raised |-> "ValueError", cart_db |-> loaded, cart_file |-> f,
              ret |-> <<>>]
        ELSE LET current_qty == QuantityOf(loaded, product_id_str)
                 new_qty == current_qty + quantity
                 d == SetItem(loaded, product_id_str,
                              NewItem(product_id, new_qty, t))
             IN  [raised |-> "none", cart_db |-> d,
                  cart_file |-> save_cart_data(d, f, o),
                  ret |-> <<Item(d, product_id_str)>>]

\* add_to_cart(product_id, quantity, products_db) on file f at time t, its save
\* ending with outcome o
add_to_cart(product_id, quantity, f, t, o) ==
    LET loaded == load_cart_data(f)
        product_id_str == str(product_id)
    IN  IF ~InCatalog(product_id)
        THEN [raised |-> "ValueError", cart_db |-> loaded, cart_file |-> f,
              ret |-> <<>>]
        ELSE LET current_qty == QuantityOf(loaded, product_id_str)
                 new_qty == current_qty + quantity
                 d == SetItem(loaded, product_id_str,
                              NewItem(product_id, new_qty, t))
             IN  [raised |-> "none", cart_db |-> d,
                  cart_file |-> save_cart_data(d, f, o),
                  ret |-> <<Item(d, product_id_str)>>]

\* the loop of checkout_cart pricing a line at the catalog's price, not the line's
RECURSIVE CheckoutLoopCatalogPrice(_, _, _)
CheckoutLoopCatalogPrice(d, i, acc) ==
    IF i > Len(d) THEN acc
    ELSE LET product_id == int(d[i].key)
             item == d[i].item
         IN  IF product_id.ok /\ InCatalog(product_id.value)
             THEN LET price == products_db[product_id.value].price
                      subtotal == price * item.quantity
                  IN  CheckoutLoopCatalogPrice(d, i + 1,
                          [total |-> acc.total + subtotal,
                           detailed_items |-> Append(acc.detailed_items,
                               [product_id |-> product_id.value,
                                name |-> item.name,
                                price |-> price,
                                quantity |-> item.quantity,
                                subtotal |-> round2(subtotal)])])
             ELSE CheckoutLoopCatalogPrice(d, i + 1, acc)

\* the loop of checkout_cart without its test "product_id in products_db"
RECURSIVE CheckoutLoopNoCatalogTest(_, _, _)
CheckoutLoopNoCatalogTest(d, i, acc) ==
    IF i > Len(d) THEN acc
    ELSE LET product_id == int(d[i].key)
             item == d[i].item
             subtotal == item.price * item.quantity
         IN  IF product_id.ok
             THEN CheckoutLoopNoCatalogTest(d, i + 1,
                      [total |-> acc.total + subtotal,
                       detailed_items |-> Append(acc.detailed_items,
                           [product_id |-> product_id.value,
                            name |-> item.name,
                            price |-> item.price,
                            quantity |-> item.quantity,
                            subtotal |-> round2(subtotal)])])
             ELSE CheckoutLoopNoCatalogTest(d, i + 1, acc)

\* the loop of checkout_cart over the entries of d, from entry i on
RECURSIVE CheckoutLoop(_, _, _)
CheckoutLoop(d, i, acc) ==
    IF i > Len(d) THEN acc
    ELSE LET product_id == int(d[i].key)
             item == d[i].item
             subtotal == item.price * item.quantity
         IN  IF product_id.ok /\ InCatalog(product_id.value)
             THEN CheckoutLoop(d, i + 1,
                      [total |-> acc.total + subtotal,
                       detailed_items |-> Append(acc.detailed_items,
                           [product_id |-> product_id.value,
                            name |-> item.name,
                            price |-> item.price,
                            quantity |-> item.quantity,
                            subtotal |-> round2(subtotal)])])
             ELSE CheckoutLoop(d, i + 1, acc)

\* checkout_cart(products_db) on file f
checkout_cart(f) ==
    LET loaded == load_cart_data(f)
        r == CheckoutLoop(loaded, 1, [total |-> 0, detailed_items |-> <<>>])
    IN  [cart_db |-> loaded, cart_file |-> f,
         total |-> round2(r.total), detailed_items |-> r.detailed_items]

\* get_cart()
get_cart(d) == d

\* clear_cart() on file f, its save ending with outcome o
clear_cart(f, o) ==
    [cart_db |-> EmptyDict, cart_file |-> save_cart_data(EmptyDict, f, o)]

----------------------------------------------------------------------------
(* main.py: the request handlers *)

\* the names main.py binds at module level that the handlers read
MainGlobals ==
    {"load_cart_data", "save_cart_data", "add_to_cart", "checkout_cart",
     "clear_cart", "get_cart", "products_db"}

\* the record of a request: what came in (op, product_id, quantity), how many
\* units of the product (add) or lines (checkout) the in-memory cart held then
\* (had), the outcome of its save, what the cart function returned (ret: the line
\* of add_to_cart; totalled: the cart checkout_cart totalled) and the answer
\* (status; line, total and items, body)
NoRequest ==
    [op |-> "startup", product_id |-> 0, quantity |-> 0, had |-> 0,
     save |-> "none", ret |-> <<>>, totalled |-> <<>>, status |-> 0,
     line |-> <<>>, total |-> 0, items |-> <<>>, body |-> <<>>]

\* CartOperationResponse(...) built from the line add_to_cart returned
CartOperationResponse(cart_data, quantity) ==
    [action |-> IF cart_data.quantity > quantity THEN "updated" ELSE "added",
     current_quantity |-> cart_data.quantity,
     product_id |-> cart_data.product_id,
     product_name |-> cart_data.name]

\* POST /cart/add: the print after add_to_cart reads len(cart_db), a name main.py
\* does not bind, and the NameError is answered by the last except clause
add_to_cart_endpoint(product_id, quantity, o) ==
    LET r == add_to_cart(product_id, quantity, cart_file, now, o)
        status == IF r.raised = "ValueError" THEN 404
                  ELSE IF "cart_db" \notin MainGlobals THEN 500
                  ELSE 200
    IN  /\ r.raised = "none" => now < MaxClock
        /\ r.raised = "ValueError" => o = "ok"
        /\ cart_db' = r.cart_db
        /\ cart_file' = r.cart_file
        /\ now' = IF r.raised = "none" THEN now + 1 ELSE now
        /\ last' = [NoRequest EXCEPT
                       !.op = "add", !.product_id = product_id,
                       !.quantity = quantity,
                       !.had = QuantityOf(cart_db, str(product_id)),
                       !.save = IF r.raised = "none" THEN o ELSE "none",
                       !.ret = r.ret, !.status = status,
                       !.line = IF status = 200
                                THEN <<CartOperationResponse(r.ret[1], quantity)>>
                                ELSE <<>>]
        /\ UNCHANGED <<concVars, main_cart_db, otherVars>>

\* GET /cart/
view_cart ==
    LET cart == get_cart(cart_db)
    IN  /\ last' = [NoRequest EXCEPT !.op = "view", !.status = 200, !.body = cart]
        /\ UNCHANGED <<cart_db, cart_file, now>>
        /\ UNCHANGED <<concVars, main_cart_db, otherVars>>

\* GET /cart/items/
view_cart_as_list ==
    LET cart == get_cart(cart_db)
    IN  /\ last' = [NoRequest EXCEPT
                       !.op = "view_list", !.status = 200,
                       !.items = [i \in 1..Len(cart) |-> cart[i].item]]
        /\ UNCHANGED <<cart_db, cart_file, now>>
        /\ UNCHANGED <<concVars, main_cart_db, otherVars>>

\* GET /cart/checkout
checkout(o) ==
    LET cart == get_cart(cart_db)
        c == checkout_cart(cart_file)
        e == clear_cart(c.cart_file, o)
    IN  IF cart = EmptyDict
        THEN /\ o = "ok"
             /\ last' = [NoRequest EXCEPT !.op = "checkout", !.status = 400]
             /\ UNCHANGED <<cart_db, cart_file, now>>
             /\ UNCHANGED <<concVars, main_cart_db, otherVars>>
        ELSE /\ cart_db' = e.cart_db
             /\ cart_file' = e.cart_file
             /\ last' = [NoRequest EXCEPT
                            !.op = "checkout", !.had = Len(cart), !.save = o,
                            !.totalled = c.cart_db, !.status = 200,
                            !.total = c.total, !.items = c.detailed_items]
             /\ UNCHANGED now
             /\ UNCHANGED <<concVars, main_cart_db, otherVars>>

\* DELETE /cart/
empty_cart(o) ==
    LET e == clear_cart(cart_file, o)
    IN  /\ cart_db' = e.cart_db
        /\ cart_file' = e.cart_file
        /\ last' = [NoRequest EXCEPT !.op = "empty", !.save = o, !.status = 204]
        /\ UNCHANGED now
        /\ UNCHANGED <<concVars, main_cart_db, otherVars>>

----------------------------------------------------------------------------
(* 'main .py': the other entry point of the shopping service.  It imports   *)
(* cart_db by name (lines 13-20): main_cart_db is the dict that name is     *)
(* bound to, the one cart.py creates at line 11.  load_cart_data and        *)
(* clear_cart assign cart.cart_db a new dict, and add_to_cart writes into   *)
(* the dict its own load_cart_data call has just bound, so no handler ever  *)
(* changes the dict the imported name is bound to.                          *)

\* CartItem: the body of POST /cart/add
CartItem == [product_id : RequestIds, quantity : 1..MaxQty]

\* POST /cart/add
alt_add_to_cart_endpoint(item, o) ==
    LET r == add_to_cart(item.product_id, item.quantity, cart_file, now, o)
        status == IF r.raised = "ValueError" THEN 404 ELSE 200
    IN  /\ r.raised = "none" => now < MaxClock
        /\ r.raised = "ValueError" => o = "ok"
        /\ cart_db' = r.cart_db
        /\ cart_file' = r.cart_file
        /\ now' = IF r.raised = "none" THEN now + 1 ELSE now
        /\ last' = [NoRequest EXCEPT
                       !.op = "add", !.product_id = item.product_id,
                       !.quantity = item.quantity,
                       !.had = QuantityOf(cart_db, str(item.product_id)),
                       !.save = IF r.raised = "none" THEN o ELSE "none",
                       !.ret = r.ret, !.status = status,
                       !.line = IF status = 200
                                THEN <<CartOperationResponse(r.ret[1],
                                                             item.quantity)>>
                                ELSE <<>>]
        /\ UNCHANGED <<concVars, main_cart_db, otherVars>>

\* GET /cart/
alt_view_cart ==
    /\ last' = [NoRequest EXCEPT !.op = "view", !.status = 200,
                                 !.body = main_cart_db]
    /\ UNCHANGED <<cart_db, cart_file, now>>
    /\ UNCHANGED <<concVars, main_cart_db, otherVars>>

\* GET /cart/items/
alt_view_cart_as_list ==
    /\ last' = [NoRequest EXCEPT
                   !.op = "view_list", !.status = 200,
                   !.items = [i \in 1..Len(main_cart_db) |-> main_cart_db[i].item]]
    /\ UNCHANGED <<cart_db, cart_file, now>>
    /\ UNCHANGED <<concVars, main_cart_db, otherVars>>

\* GET /cart/checkout
alt_checkout(o) ==
    LET c == checkout_cart(cart_file)
        e == clear_cart(c.cart_file, o)
    IN  IF main_cart_db = EmptyDict
        THEN /\ o = "ok"
             /\ last' = [NoRequest EXCEPT !.op = "checkout", !.status = 400]
             /\ UNCHANGED <<cart_db, cart_file, now>>
             /\ UNCHANGED <<concVars, main_cart_db, otherVars>>
        ELSE /\ cart_db' = e.cart_db
             /\ cart_file' = e.cart_file
             /\ last' = [NoRequest EXCEPT
                            !.op = "checkout", !.had = Len(main_cart_db),
                            !.save = o, !.totalled = c.cart_db, !.status = 200,
                            !.total = c.total, !.items = c.detailed_items]
             /\ UNCHANGED now
             /\ UNCHANGED <<concVars, main_cart_db, otherVars>>

\* DELETE /cart/
alt_empty_cart(o) ==
    LET e == clear_cart(cart_file, o)
    IN  /\ cart_db' = e.cart_db
        /\ cart_file' = e.cart_file
        /\ last' = [NoRequest EXCEPT !.op = "empty", !.save = o, !.status = 204]
        /\ UNCHANGED now
        /\ UNCHANGED <<concVars, main_cart_db, otherVars>>

----------------------------------------------------------------------------
(* Two server processes on one cart file.  Each has its own cart.cart_db;   *)
(* nothing orders the steps of add_to_cart in one process against those in  *)
(* the other: its load (line 44), its update of cart_db (lines 46-61) and   *)
(* its save (line 64).                                                      *)

Workers == {1, 2}

\* the add a worker serves: seen is the quantity it found for the product after
\* its load, ret the line add_to_cart returned, save the outcome of its save
NoAdd ==
    [product_id |-> 0, quantity |-> 0, seen |-> 0, ret |-> <<>>, save |-> "none"]

\* a request reaches worker w (the clock ticks); add_to_cart, line 44:
\* load_cart_data()
WorkerLoad(w, product_id, quantity) ==
    /\ wpc[w] = "idle"
    /\ now < MaxClock
    /\ now' = now + 1
    /\ wmem' = [wmem EXCEPT ![w] = load_cart_data(cart_file)]
    /\ wreq' = [wreq EXCEPT ![w] = [NoAdd EXCEPT !.product_id = product_id,
                                                 !.quantity = quantity]]
    /\ wpc' = [wpc EXCEPT ![w] = "loaded"]
    /\ UNCHANGED <<cart_file, writer, added>>
    /\ UNCHANGED <<shopVars, main_cart_db, otherVars>>

\* add_to_cart, lines 46-61: the catalog test and the update of cart_db
WorkerUpdate(w) ==
    LET product_id == wreq[w].product_id
        product_id_str == str(product_id)
        current_qty == QuantityOf(wmem[w], product_id_str)
        new_qty == current_qty + wreq[w].quantity
    IN  /\ wpc[w] = "loaded"
        /\ IF ~InCatalog(product_id)
           THEN /\ wpc' = [wpc EXCEPT ![w] = "idle"]
                /\ UNCHANGED <<wmem, wreq>>
           ELSE /\ wmem' = [wmem EXCEPT ![w] =
                               SetItem(wmem[w], product_id_str,
                                       NewItem(product_id, new_qty, now))]
                /\ wreq' = [wreq EXCEPT ![w].seen = current_qty]
                /\ wpc' = [wpc EXCEPT ![w] = "updated"]
        /\ UNCHANGED <<cart_file, now, writer, added>>
        /\ UNCHANGED <<shopVars, main_cart_db, otherVars>>

\* add_to_cart, lines 64-65: save_cart_data() and the return
WorkerSave(w, o) ==
    /\ wpc[w] = "updated"
    /\ cart_file' = save_cart_data(wmem[w], cart_file, o)
    /\ writer' = IF o = "open_failed" THEN writer ELSE w
    /\ wreq' = [wreq EXCEPT ![w].ret = <<Item(wmem[w], str(wreq[w].product_id))>>,
                            ![w].save = o]
    /\ added' = [added EXCEPT ![wreq[w].product_id] = @ + wreq[w].quantity]
    /\ wpc' = [wpc EXCEPT ![w] = "idle"]
    /\ UNCHANGED <<wmem, now>>
    /\ UNCHANGED <<shopVars, main_cart_db, otherVars>>

----------------------------------------------------------------------------
(* task_1_student_api/main.py: the student service.  students_db is a      *)
(* function from key to Student; averages are counted in hundredths.       *)

\* names a request can carry, in its path or in its body (min_length = 1)
StudentNames == {"ann", "Ann", "bob"}

\* name.lower()
lower(name) ==
    CASE name = "ann" -> "ann"
      [] name = "Ann" -> "ann"
      [] name = "bob" -> "bob"

Subjects == {"math"}

\* scores a body can carry; 120 is what validate_scores refuses
ScoreValues == {40, 95, 120}

\* StudentBase.validate_scores
validate_scores(subject_scores) ==
    \A subject \in DOMAIN subject_scores :
        0 <= subject_scores[subject] /\ subject_scores[subject] <= 100

\* the bodies that reach a handler: StudentBase, validated
StudentBase ==
    {student_data \in
         [name : StudentNames,
          subject_scores : UNION {[S -> ScoreValues] : S \in SUBSET Subjects}] :
         validate_scores(student_data.subject_scores)}

\* sum(scores.values())
RECURSIVE SumScores(_)
SumScores(scores) ==
    IF DOMAIN scores = {} THEN 0
    ELSE LET subject == CHOOSE x \in DOMAIN scores : TRUE
         IN  scores[subject]
             + SumScores([x \in DOMAIN scores \ {subject} |-> scores[x]])

\* calculate_average_and_grade: the average rounded to hundredths (ties to the
\* even hundredth) and the grade of the unrounded average
calculate_average_and_grade(scores) ==
    IF DOMAIN scores = {} THEN [average |-> 0, grade |-> "N/A"]
    ELSE LET n == Cardinality(DOMAIN scores)
             total == SumScores(scores)
             q == (total * 100) \div n
             r == (total * 100) % n
             rounded == IF 2 * r < n THEN q
                        ELSE IF 2 * r > n THEN q + 1
                        ELSE IF q % 2 = 0 THEN q ELSE q + 1
         IN  [average |-> rounded,
              grade |-> IF total >= 90 * n THEN "A"
                        ELSE IF total >= 80 * n THEN "B"
                        ELSE IF total >= 70 * n THEN "C"
                        ELSE IF total >= 60 * n THEN "D"
                        ELSE "F"]

\* Student(name=..., subject_scores=..., average=avg, grade=grade)
Student(student_data) ==
    LET r == calculate_average_and_grade(student_data.subject_scores)
    IN  [name |-> student_data.name,
         subject_scores |-> student_data.subject_scores,
         average |-> r.average,
         grade |-> r.grade]

\* load_students_data: the value of students_db after it, db being the value before
load_students_data(f, db) ==
    IF f.kind = "absent" THEN db
    ELSE IF f.kind = "dict" THEN f.data
    ELSE EmptyDict

\* save_students_data: the file after saving db with outcome o; the exception is
\* swallowed
save_students_data(db, f, o) ==
    CASE o = "ok" -> FileOf(db)
      [] o = "open_failed" -> f
      [] o = "write_failed" -> CorruptFile

\* the record of a request: what came in (name: the name in the path, body_name:
\* the name in the body) and the status of the answer
NoStudentRequest == [op |-> "startup", name |-> "", body_name |-> "", status |-> 0]

StudentRequest(op, name, body_name, status) ==
    [op |-> op, name |-> name, body_name |-> body_name, status |-> status]

\* the variables no handler of the student service touches
notStudentVars == <<cartVars, contactVars, jobVars, noteVars>>

\* POST /students/ testing the name as sent, not its lower-cased form
create_student_name_as_sent(student_data, o) ==
    LET name_lower == lower(student_data.name)
        db == (name_lower :> Student(student_data)) @@ students_db
    IN  /\ IF student_data.name \in DOMAIN students_db
           THEN /\ o = "ok"
                /\ student_last' = StudentRequest("create", "", student_data.name, 409)
                /\ UNCHANGED <<students_db, students_file>>
           ELSE /\ students_db' = db
                /\ students_file' = save_students_data(db, students_file, o)
                /\ student_last' = StudentRequest("create", "", student_data.name, 201)
        /\ UNCHANGED notStudentVars

\* POST /students/
create_student(student_data, o) ==
    LET name_lower == lower(student_data.name)
        db == (name_lower :> Student(student_data)) @@ students_db
    IN  /\ IF name_lower \in DOMAIN students_db
           THEN /\ o = "ok"
                /\ student_last' = StudentRequest("create", "", student_data.name, 409)
                /\ UNCHANGED <<students_db, students_file>>
           ELSE /\ students_db' = db
                /\ students_file' = save_students_data(db, students_file, o)
                /\ student_last' = StudentRequest("create", "", student_data.name, 201)
        /\ UNCHANGED notStudentVars

\* GET /students/{name}
get_student(name) ==
    /\ student_last' = StudentRequest("get", name, "",
                                       IF lower(name) \in DOMAIN students_db
                                       THEN 200 ELSE 404)
    /\ UNCHANGED <<students_db, students_file>>
    /\ UNCHANGED notStudentVars

\* GET /students/
get_all_students ==
    /\ student_last' = StudentRequest("get_all", "", "", 200)
    /\ UNCHANGED <<students_db, students_file>>
    /\ UNCHANGED notStudentVars

\* PUT /students/{name} testing the names before it looks the student up
update_student_names_first(name, student_data, o) ==
    LET name_lower == lower(name)
        db == (name_lower :> Student(student_data)) @@ students_db
    IN  /\ IF lower(student_data.name) # name_lower
           THEN /\ o = "ok"
                /\ student_last' = StudentRequest("update", name, student_data.name, 400)
                /\ UNCHANGED <<students_db, students_file>>
           ELSE IF name_lower \notin DOMAIN students_db
           THEN /\ o = "ok"
                /\ student_last' = StudentRequest("update", name, student_data.name, 404)
                /\ UNCHANGED <<students_db, students_file>>
           ELSE /\ students_db' = db
                /\ students_file' = save_students_data(db, students_file, o)
                /\ student_last' = StudentRequest("update", name, student_data.name, 200)
        /\ UNCHANGED notStudentVars

\* PUT /students/{name}
update_student(name, student_data, o) ==
    LET name_lower == lower(name)
        db == (name_lower :> Student(student_data)) @@ students_db
    IN  /\ IF name_lower \notin DOMAIN students_db
           THEN /\ o = "ok"
                /\ student_last' = StudentRequest("update", name, student_data.name, 404)
                /\ UNCHANGED <<students_db, students_file>>
           ELSE IF lower(student_data.name) # name_lower
           THEN /\ o = "ok"
                /\ student_last' = StudentRequest("update", name, student_data.name, 400)
                /\ UNCHANGED <<students_db, students_file>>
           ELSE /\ students_db' = db
                /\ students_file' = save_students_data(db, students_file, o)
                /\ student_last' = StudentRequest("update", name, student_data.name, 200)
        /\ UNCHANGED notStudentVars

\* DELETE /students/{name}
delete_student(name, o) ==
    LET name_lower == lower(name)
        db == [k \in DOMAIN students_db \ {name_lower} |-> students_db[k]]
    IN  /\ IF name_lower \notin DOMAIN students_db
           THEN /\ o = "ok"
                /\ student_last' = StudentRequest("delete", name, "", 404)
                /\ UNCHANGED <<students_db, students_file>>
           ELSE /\ students_db' = db
                /\ students_file' = save_students_data(db, students_file, o)
                /\ student_last' = StudentRequest("delete", name, "", 204)
        /\ UNCHANGED notStudentVars

\* students.json as the module leaves it before lifespan runs
StudentsImported ==
    /\ students_db = EmptyDict
    /\ students_file = AbsentFile
    /\ student_last = NoStudentRequest

\* stores students.json can hold at startup: what an earlier run saved, and a
\* file written by hand whose key is not lower-cased
OldStudents ==
    {EmptyDict,
     "ann" :> Student([name |-> "Ann", subject_scores |-> ("math" :> 95)]),
     "Ann" :> Student([name |-> "Ann", subject_scores |-> ("math" :> 40)])}

InitStudentFiles == {AbsentFile, CorruptFile} \cup {FileOf(d) : d \in OldStudents}

----------------------------------------------------------------------------
(* task_5_simple_contact_api/main.py: the contact service.  contacts_db is *)
(* a function from id to contact; contacts_next_id is the module's next_id. *)

\* ContactBase: bodies of create and update (name min_length = 1, email EmailStr)
ContactBase == [name : {"ann", "bob"}, email : {"a@x.io", "b@x.io"}]

\* contact ids a path can carry; 0 is never handed out
ContactIds == 0..MaxContacts

\* d.update(u) on dicts with string keys
DictUpdate(d, u) ==
    [k \in DOMAIN d \cup DOMAIN u |-> IF k \in DOMAIN u THEN u[k] ELSE d[k]]

\* the record of a request: what came in (contact_id: the id in the path, or the
\* id create handed out) and the status of the answer
NoContactRequest == [op |-> "startup", contact_id |-> 0, status |-> 0]

ContactRequest(op, contact_id, status) ==
    [op |-> op, contact_id |-> contact_id, status |-> status]

\* the variables no handler of the contact service touches
notContactVars == <<cartVars, studentVars, jobVars, noteVars>>

\* POST /contacts/ numbering the new contact by the size of the store
create_contact_len_id(contact) ==
    LET id == Cardinality(DOMAIN contacts_db) + 1
        new_contact_data == DictUpdate(contact, [id |-> id])
    IN  /\ contacts_next_id < MaxContacts
        /\ contacts_next_id' = contacts_next_id + 1
        /\ contacts_db' = (id :> new_contact_data) @@ contacts_db
        /\ contact_ids' = Append(contact_ids, id)
        /\ contact_last' = ContactRequest("create", id, 201)
        /\ UNCHANGED deleted_ids
        /\ UNCHANGED notContactVars

\* POST /contacts/
create_contact(contact) ==
    LET id == contacts_next_id + 1
        new_contact_data == DictUpdate(contact, [id |-> id])
    IN  /\ contacts_next_id < MaxContacts
        /\ contacts_next_id' = id
        /\ contacts_db' = (id :> new_contact_data) @@ contacts_db
        /\ contact_ids' = Append(contact_ids, id)
        /\ contact_last' = ContactRequest("create", id, 201)
        /\ UNCHANGED deleted_ids
        /\ UNCHANGED notContactVars

\* GET /contacts/{contact_id}
get_contact(contact_id) ==
    /\ contact_last' = ContactRequest("get", contact_id,
                                      IF contact_id \in DOMAIN contacts_db
                                      THEN 200 ELSE 404)
    /\ UNCHANGED <<contacts_db, contacts_next_id, contact_ids, deleted_ids>>
    /\ UNCHANGED notContactVars

\* PUT /contacts/{contact_id}
update_contact(contact_id, contact_update) ==
    /\ IF contact_id \notin DOMAIN contacts_db
       THEN /\ contact_last' = ContactRequest("update", contact_id, 404)
            /\ UNCHANGED contacts_db
       ELSE /\ contacts_db' = [contacts_db EXCEPT
                                  ![contact_id] = DictUpdate(@, contact_update)]
            /\ contact_last' = ContactRequest("update", contact_id, 200)
    /\ UNCHANGED <<contacts_next_id, contact_ids, deleted_ids>>
    /\ UNCHANGED notContactVars

\* DELETE /contacts/{contact_id} that answers without removing the contact
delete_contact_keep(contact_id) ==
    /\ IF contact_id \notin DOMAIN contacts_db
       THEN /\ contact_last' = ContactRequest("delete", contact_id, 404)
            /\ UNCHANGED deleted_ids
       ELSE /\ contact_last' = ContactRequest("delete", contact_id, 204)
            /\ deleted_ids' = deleted_ids \cup {contact_id}
    /\ UNCHANGED <<contacts_db, contacts_next_id, contact_ids>>
    /\ UNCHANGED notContactVars

\* DELETE /contacts/{contact_id}
delete_contact(contact_id) ==
    /\ IF contact_id \notin DOMAIN contacts_db
       THEN /\ contact_last' = ContactRequest("delete", contact_id, 404)
            /\ UNCHANGED <<contacts_db, deleted_ids>>
       ELSE /\ contacts_db' = [k \in DOMAIN contacts_db \ {contact_id} |->
                                  contacts_db[k]]
            /\ contact_last' = ContactRequest("delete", contact_id, 204)
            /\ deleted_ids' = deleted_ids \cup {contact_id}
    /\ UNCHANGED <<contacts_next_id, contact_ids>>
    /\ UNCHANGED notContactVars

\* the module before any request: contacts_db = {}, next_id = 0; lifespan loads
\* nothing
ContactsImported ==
    /\ contacts_db = EmptyDict
    /\ contacts_next_id = 0
    /\ contact_last = NoContactRequest
    /\ contact_ids = <<>>
    /\ deleted_ids = {}

----------------------------------------------------------------------------
(* task_3_job_application_tracker: main.py and file_handler.py.             *)
(* applications_db is the list of applications; applications_next_id is the *)
(* module's next_id.  date_applied, which nothing reads, is left out of the *)
(* applications.                                                            *)

\* JobApplicationBase: the bodies of POST /applications/
JobApplicationBase ==
    [company : {"acme", "bolt"}, title : {"dev"}, status : {"Pending", "Accepted"}]

\* JobApplication(id=..., company=..., title=..., status=...).model_dump()
JobApplication(id, application_data) ==
    [id |-> id,
     company |-> application_data.company,
     title |-> application_data.title,
     status |-> application_data.status]

\* applications.json holding the list d
ListFile(d) == [kind |-> "list", data |-> d]

\* file_handler.load_data
load_data(f) == IF f.kind = "list" THEN f.data ELSE <<>>

\* file_handler.save_data: the file after saving data with outcome o; the IOError
\* is swallowed
save_data(data, f, o) ==
    CASE o = "ok" -> ListFile(data)
      [] o = "open_failed" -> f
      [] o = "write_failed" -> CorruptFile

\* max(app['id'] for app in applications_db)
MaxId(db) ==
    CHOOSE m \in {db[i].id : i \in 1..Len(db)} : \A i \in 1..Len(db) : db[i].id <= m

\* lifespan numbering from the size of the list
NextIdByLen(db) == Len(db) + 1

\* lifespan, lines 62-65: the next_id it sets for the applications it loaded
NextIdAtStartup(db) == IF db # <<>> THEN MaxId(db) + 1 ELSE 1

\* the record of a request: what came in (app_id: the id in the path, or the id
\* create gave) and the status of the answer
NoApplicationRequest == [op |-> "startup", app_id |-> 0, status |-> 0]

ApplicationRequest(op, app_id, status) ==
    [op |-> op, app_id |-> app_id, status |-> status]

\* the variables no handler of the tracker touches
notJobVars == <<cartVars, studentVars, contactVars, noteVars>>

\* POST /applications/
create_application(application_data, o) ==
    LET new_application == JobApplication(applications_next_id, application_data)
        db == Append(applications_db, new_application)
    IN  /\ Len(applications_db) < MaxApplications
        /\ applications_db' = db
        /\ applications_file' = save_data(db, applications_file, o)
        /\ applications_next_id' = applications_next_id + 1
        /\ application_last' = ApplicationRequest("create", new_application.id, 201)
        /\ UNCHANGED notJobVars

\* GET /applications/
get_all_applications ==
    /\ application_last' = ApplicationRequest("get_all", 0, 200)
    /\ UNCHANGED <<applications_db, applications_file, applications_next_id>>
    /\ UNCHANGED notJobVars

\* GET /applications/{app_id}
get_application_by_id(app_id) ==
    /\ application_last' =
           ApplicationRequest("get", app_id,
                              IF \E i \in 1..Len(applications_db) :
                                     applications_db[i].id = app_id
                              THEN 200 ELSE 404)
    /\ UNCHANGED <<applications_db, applications_file, applications_next_id>>
    /\ UNCHANGED notJobVars

\* the module before lifespan runs: applications_db = [], next_id = 0
ApplicationsImported ==
    /\ applications_db = <<>>
    /\ applications_next_id = 0
    /\ applications_file = AbsentFile
    /\ application_last = NoApplicationRequest

\* lists applications.json can hold at startup: what an earlier run saved, and
\* such a list after entries were taken out and moved by hand
OldApplications ==
    LET a == [company |-> "acme", title |-> "dev", status |-> "Pending"]
    IN  {<<>>,
         <<JobApplication(1, a)>>,
         <<JobApplication(1, a), JobApplication(2, a)>>,
         <<JobApplication(3, a), JobApplication(1, a)>>}

InitApplicationFiles ==
    {AbsentFile, CorruptFile} \cup {ListFile(d) : d \in OldApplications}

----------------------------------------------------------------------------
(* task_4_notes_app: main.py and file_storage.py.  notes_dir is the notes   *)
(* directory: a function from note id to the dict its file <id>.json holds. *)
(* A JSON value is a string, Str(s), or null.  Writes of note files are     *)
(* taken to complete: a write that fails raises IOError, which the handlers *)
(* pass on as an error, and is not part of this model.                      *)

Str(s) == [t |-> "str", v |-> s]
Null == [t |-> "null", v |-> ""]

\* the values a body can carry as a title: two titles, null, the empty string
\* and a string of 101 characters
TitleValues ==
    {Str("t1"), Str("t2"), Null, Str(""),
     Str("xxxxxxxxxxxxxxxxxxxxxxxxxxxxxxxxxxxxxxxxxxxxxxxxxxxxxxxxxxxxxxxxxxxxxxxxxxxxxxxxxxxxxxxxxxxxxxxxxxxxx")}

\* the values a body can carry as a content
ContentValues == {Str("c1"), Null, Str("")}

\* title: str = Field(..., min_length=1, max_length=100)
ValidTitle(v) == v.t = "str" /\ Len(v.v) >= 1 /\ Len(v.v) <= 100

\* content: str = Field(..., min_length=1)
ValidContent(v) == v.t = "str" /\ Len(v.v) >= 1

\* NoteBase: the bodies of POST and PUT that pass validation
NoteBase ==
    {note_data \in [title : TitleValues, content : ContentValues] :
         ValidTitle(note_data.title) /\ ValidContent(note_data.content)}

\* NoteUpdate: the bodies of PATCH that pass validation.  A field is Optional:
\* null passes, a string has to satisfy the constraints; a field the body does
\* not carry has the default None and is not in model_fields_set.
NoteUpdate ==
    {update_data \in [title : TitleValues, content : ContentValues,
                      model_fields_set : SUBSET {"title", "content"}] :
         /\ update_data.title = Null \/ ValidTitle(update_data.title)
         /\ update_data.content = Null \/ ValidContent(update_data.content)
         /\ "title" \notin update_data.model_fields_set => update_data.title = Null
         /\ "content" \notin update_data.model_fields_set
               => update_data.content = Null}

\* Note: what response_model=Note accepts for the note of file note_id
Note(n, note_id) ==
    /\ n.id = Str(note_id)
    /\ ValidTitle(n.title)
    /\ ValidContent(n.content)

\* update_data.model_dump(): every field, the unset ones with their default
model_dump(update_data) ==
    [k \in {"title", "content"} |-> update_data[k]]

\* update_data.model_dump(exclude_unset=True)
model_dump_exclude_unset(update_data) ==
    [k \in update_data.model_fields_set |-> update_data[k]]

\* str(uuid.uuid4()): the id of the k-th call, each a new one
uuid4(k) ==
    CASE k = 1 -> "u1"
      [] k = 2 -> "u2"
      [] k = 3 -> "u3"
      [] k = 4 -> "u4"

\* note ids a path can carry: those create hands out, that of a note an earlier
\* run left, and one that no note ever has
NoteIds == {uuid4(k) : k \in 1..MaxNotes} \cup {"u0", "u9"}

\* file_storage.create_note: the directory after it
create_note(dir, note_id, note_data) ==
    (note_id :> DictUpdate(note_data, [id |-> Str(note_id)])) @@ dir

\* file_storage.get_note: the dict of the file, or nothing (None)
get_note(dir, note_id) ==
    IF note_id \in DOMAIN dir THEN <<dir[note_id]>> ELSE <<>>

\* file_storage.save_note_update: the directory after it and what it returns
save_note_update(dir, note_id, updated_data) ==
    IF note_id \notin DOMAIN dir
    THEN [dir |-> dir, ret |-> <<>>]
    ELSE [dir |-> [dir EXCEPT ![note_id] = updated_data],
          ret |-> <<updated_data>>]

\* file_storage.delete_note: the directory after it and what it returns
delete_note(dir, note_id) ==
    IF note_id \notin DOMAIN dir
    THEN [dir |-> dir, ret |-> FALSE]
    ELSE [dir |-> [k \in DOMAIN dir \ {note_id} |-> dir[k]], ret |-> TRUE]

\* the record of a request: what came in (note_id: the id in the path, or the id
\* create made; body: the NoteUpdate of a PATCH) and the status of the answer
NoNoteRequest == [op |-> "startup", note_id |-> "", body |-> <<>>, status |-> 0]

NoteRequest(op, note_id, body, status) ==
    [op |-> op, note_id |-> note_id, body |-> body, status |-> status]

\* the status of an answer that returns n as the note of note_id: the response
\* model refuses a dict that is no Note
ResponseStatus(n, note_id, ok) == IF Note(n, note_id) THEN ok ELSE 500

\* the variables no handler of the notes service touches
notNoteVars == <<cartVars, studentVars, contactVars, jobVars>>

\* POST /notes/
create_note_endpoint(note_data) ==
    LET note_id == uuid4(uuid_calls + 1)
        dir == create_note(notes_dir, note_id, note_data)
    IN  /\ uuid_calls < MaxNotes
        /\ uuid_calls' = uuid_calls + 1
        /\ notes_dir' = dir
        /\ note_last' = NoteRequest("create", note_id, <<>>,
                                    ResponseStatus(dir[note_id], note_id, 201))
        /\ UNCHANGED notNoteVars

\* GET /notes/
get_all_notes_endpoint ==
    /\ note_last' = NoteRequest("get_all", "", <<>>,
                                IF \A k \in DOMAIN notes_dir : Note(notes_dir[k], k)
                                THEN 200 ELSE 500)
    /\ UNCHANGED <<notes_dir, uuid_calls>>
    /\ UNCHANGED notNoteVars

\* GET /notes/{note_id}
get_note_by_id(note_id) ==
    LET note == get_note(notes_dir, note_id)
    IN  /\ note_last' = NoteRequest("get", note_id, <<>>,
                                    IF note = <<>> THEN 404
                                    ELSE ResponseStatus(note[1], note_id, 200))
        /\ UNCHANGED <<notes_dir, uuid_calls>>
        /\ UNCHANGED notNoteVars

\* PATCH /notes/{note_id}
partial_update_note(note_id, update_data) ==
    LET existing_note == get_note(notes_dir, note_id)
        update_dict == model_dump_exclude_unset(update_data)
        saved == save_note_update(notes_dir, note_id,
                                  DictUpdate(existing_note[1], update_dict))
    IN  /\ IF existing_note = <<>>
           THEN /\ note_last' = NoteRequest("patch", note_id, <<update_data>>, 404)
                /\ UNCHANGED notes_dir
           ELSE /\ notes_dir' = saved.dir
                /\ note_last' = NoteRequest("patch", note_id, <<update_data>>,
                                    IF saved.ret = <<>> THEN 500
                                    ELSE ResponseStatus(saved.ret[1], note_id, 200))
        /\ UNCHANGED uuid_calls
        /\ UNCHANGED notNoteVars

\* PUT /notes/{note_id}
update_note_endpoint(note_id, updated_data) ==
    LET existing_note == get_note(notes_dir, note_id)
        updated_note == DictUpdate(updated_data, [id |-> Str(note_id)])
        saved == save_note_update(notes_dir, note_id, updated_note)
    IN  /\ IF existing_note = <<>>
           THEN /\ note_last' = NoteRequest("put", note_id, <<>>, 404)
                /\ UNCHANGED notes_dir
           ELSE /\ notes_dir' = saved.dir
                /\ note_last' = NoteRequest("put", note_id, <<>>,
                                    IF saved.ret = <<>> THEN 500
                                    ELSE ResponseStatus(saved.ret[1], note_id, 200))
        /\ UNCHANGED uuid_calls
        /\ UNCHANGED notNoteVars

\* DELETE /notes/{note_id}
delete_note_endpoint(note_id) ==
    LET deleted == delete_note(notes_dir, note_id)
    IN  /\ notes_dir' = deleted.dir
        /\ note_last' = NoteRequest("delete", note_id, <<>>,
                                    IF deleted.ret THEN 204 ELSE 404)
        /\ UNCHANGED uuid_calls
        /\ UNCHANGED notNoteVars

\* the notes service before lifespan: no directory yet
NotesImported ==
    /\ notes_dir = EmptyDict
    /\ uuid_calls = 0
    /\ note_last = NoNoteRequest

\* directories the service can find at startup: none or an empty one, which
\* setup_directory makes, or one with a note an earlier run created
OldNotesDirs ==
    {EmptyDict,
     "u0" :> [title |-> Str("t1"), content |-> Str("c1"), id |-> Str("u0")]}

----------------------------------------------------------------------------
(* Start of the services *)

\* lines a cart file can hold when the service starts: written by an earlier run,
\* under a catalog that priced product 1 at 0.04 and still sold product 3
OldItems ==
    {[product_id |-> 1, quantity |-> 1, name |-> "apple", price |-> 40, updated_at |-> 0],
     [product_id |-> 3, quantity |-> 2, name |-> "candy", price |-> 70, updated_at |-> 0]}

\* the carts an earlier run can have saved, one line per product
OldCarts ==
    {EmptyDict}
    \cup {<<[key |-> str(a.product_id), item |-> a]>> : a \in OldItems}
    \cup {<<[key |-> str(p[1].product_id), item |-> p[1]],
            [key |-> str(p[2].product_id), item |-> p[2]]>> :
            p \in {x \in OldItems \X OldItems : x[1].product_id > x[2].product_id}}

InitFiles ==
    {AbsentFile, CorruptFile, NonDictFile} \cup {FileOf(d) : d \in OldCarts}

\* lifespan: load_products_data, then load_cart_data
Init ==
    /\ cart_file \in InitFiles
    /\ cart_db = load_cart_data(cart_file)
    /\ now = 1
    /\ last = NoRequest
    /\ wpc = [w \in Workers |-> "idle"]
    /\ wmem = [w \in Workers |-> load_cart_data(cart_file)]
    /\ wreq = [w \in Workers |-> NoAdd]
    /\ writer = 0
    /\ added = [p \in DOMAIN products_db |-> 0]
    /\ main_cart_db = EmptyDict
    /\ StudentsImported
    /\ ContactsImported
    /\ ApplicationsImported
    /\ NotesImported

Next ==
    \/ \E product_id \in RequestIds, quantity \in 1..MaxQty, o \in SaveOutcomes :
           add_to_cart_endpoint(product_id, quantity, o)
    \/ view_cart
    \/ view_cart_as_list
    \/ \E o \in SaveOutcomes : checkout(o)
    \/ \E o \in SaveOutcomes : empty_cart(o)

Spec == Init /\ [][Next]_vars

NextAltMain ==
    \/ \E item \in CartItem, o \in SaveOutcomes : alt_add_to_cart_endpoint(item, o)
    \/ alt_view_cart
    \/ alt_view_cart_as_list
    \/ \E o \in SaveOutcomes : alt_checkout(o)
    \/ \E o \in SaveOutcomes : alt_empty_cart(o)

\* the shopping service started from 'main .py', whose lifespan is that of main.py
SpecAltMain == Init /\ [][NextAltMain]_vars

\* the service started on a cart file that gives an empty cart
InitEmptyCart == Init /\ cart_db = EmptyDict

\* the shopping service, started with an empty cart
SpecEmptyCart == InitEmptyCart /\ [][Next]_vars

\* cart.py and cart.json as the module leaves them before lifespan runs
CartImported ==
    /\ cart_db = EmptyDict
    /\ cart_file = AbsentFile
    /\ now = 1
    /\ last = NoRequest
    /\ wpc = [w \in Workers |-> "idle"]
    /\ wmem = [w \in Workers |-> EmptyDict]
    /\ wreq = [w \in Workers |-> NoAdd]
    /\ writer = 0
    /\ added = [p \in DOMAIN products_db |-> 0]
    /\ main_cart_db = EmptyDict

\* the student service after lifespan: load_students_data
InitStudents ==
    /\ students_file \in InitStudentFiles
    /\ students_db = load_students_data(students_file, EmptyDict)
    /\ student_last = NoStudentRequest
    /\ CartImported
    /\ ContactsImported
    /\ ApplicationsImported
    /\ NotesImported

NextStudents ==
    \/ \E student_data \in StudentBase, o \in SaveOutcomes :
           create_student(student_data, o)
    \/ \E name \in StudentNames : get_student(name)
    \/ get_all_students
    \/ \E name \in StudentNames, student_data \in StudentBase, o \in SaveOutcomes :
           update_student(name, student_data, o)
    \/ \E name \in StudentNames, o \in SaveOutcomes : delete_student(name, o)

\* the student service
SpecStudents == InitStudents /\ [][NextStudents]_vars

\* the student service, started with an empty store
InitStudentsEmpty == InitStudents /\ students_db = EmptyDict

SpecStudentsEmpty == InitStudentsEmpty /\ [][NextStudents]_vars

\* the contact service after lifespan, which loads nothing
InitContacts ==
    /\ ContactsImported
    /\ CartImported
    /\ StudentsImported
    /\ ApplicationsImported
    /\ NotesImported

NextContacts ==
    \/ \E contact \in ContactBase : create_contact(contact)
    \/ \E contact_id \in ContactIds : get_contact(contact_id)
    \/ \E contact_id \in ContactIds, contact_update \in ContactBase :
           update_contact(contact_id, contact_update)
    \/ \E contact_id \in ContactIds : delete_contact(contact_id)

\* the contact service
SpecContacts == InitContacts /\ [][NextContacts]_vars

\* the tracker after lifespan: load_data, then next_id
InitApplications ==
    /\ applications_file \in InitApplicationFiles
    /\ applications_db = load_data(applications_file)
    /\ applications_next_id = NextIdAtStartup(applications_db)
    /\ application_last = NoApplicationRequest
    /\ CartImported
    /\ StudentsImported
    /\ ContactsImported
    /\ NotesImported

NextApplications ==
    \/ \E application_data \in JobApplicationBase, o \in SaveOutcomes :
           create_application(application_data, o)
    \/ get_all_applications
    \/ \E app_id \in 0..MaxApplications + 1 : get_application_by_id(app_id)

\* the job application tracker
SpecApplications == InitApplications /\ [][NextApplications]_vars

\* the notes service after lifespan: setup_directory
InitNotes ==
    /\ notes_dir \in OldNotesDirs
    /\ uuid_calls = 0
    /\ note_last = NoNoteRequest
    /\ CartImported
    /\ StudentsImported
    /\ ContactsImported
    /\ ApplicationsImported

NextNotes ==
    \/ \E note_data \in NoteBase : create_note_endpoint(note_data)
    \/ get_all_notes_endpoint
    \/ \E note_id \in NoteIds : get_note_by_id(note_id)
    \/ \E note_id \in NoteIds, update_data \in NoteUpdate :
           partial_update_note(note_id, update_data)
    \/ \E note_id \in NoteIds, updated_data \in NoteBase :
           update_note_endpoint(note_id, updated_data)
    \/ \E note_id \in NoteIds : delete_note_endpoint(note_id)

\* the notes service
SpecNotes == InitNotes /\ [][NextNotes]_vars

NextWorkers ==
    \/ \E w \in Workers, product_id \in RequestIds, quantity \in 1..MaxQty :
           WorkerLoad(w, product_id, quantity)
    \/ \E w \in Workers : WorkerUpdate(w)
    \/ \E w \in Workers, o \in SaveOutcomes : WorkerSave(w, o)

\* two server processes, each serving adds
SpecWorkers == Init /\ [][NextWorkers]_vars

----------------------------------------------------------------------------
(* Properties of the cart store and of the shopping service *)

\* C1: for a catalog product p with no line in the cart, add_to_cart(p, q1)
\* directly followed by add_to_cart(p, q2) makes the second call return a line
\* for p with quantity q1 + q2, and the cart holds that line.
C1_AddTwiceSums ==
    [][\A p \in DOMAIN products_db, q2 \in 1..MaxQty, o \in SaveOutcomes :
          (/\ last.op = "add" /\ last.product_id = p /\ last.had = 0
           /\ add_to_cart_endpoint(p, q2, o))
          => /\ Len(last'.ret) = 1
             /\ last'.ret[1].product_id = p
             /\ last'.ret[1].quantity = last.quantity + q2
             /\ str(p) \in Keys(cart_db')
             /\ Item(cart_db', str(p)) = last'.ret[1]]_vars

\* C2: an add of a product that is not in the catalog is answered 404 and leaves
\* the in-memory cart and the cart file as they were before the call.
C2_FailedAddLeavesCart ==
    [][\A product_id \in RequestIds, quantity \in 1..MaxQty, o \in SaveOutcomes :
          (~InCatalog(product_id) /\ add_to_cart_endpoint(product_id, quantity, o))
          => /\ last'.status = 404
             /\ cart_db' = cart_db
             /\ cart_file' = cart_file]_vars

\* a cart line whose product is in the catalog
ValidLine(e) == InCatalog(e.item.product_id)

\* sum of price times quantity over the lines of d
RECURSIVE SumLines(_)
SumLines(d) ==
    IF d = <<>> THEN 0
    ELSE Head(d).item.price * Head(d).item.quantity + SumLines(Tail(d))

\* the snapshot of one line in the answer of a checkout
Snapshot(e) ==
    [product_id |-> e.item.product_id, name |-> e.item.name,
     price |-> e.item.price, quantity |-> e.item.quantity,
     subtotal |-> e.item.price * e.item.quantity]

\* total and items are those of the lines of d whose product is in the catalog
TotalsValidLines(d, total, items) ==
    LET v == SelectSeq(d, ValidLine)
    IN  /\ total = SumLines(v)
        /\ items = [i \in 1..Len(v) |-> Snapshot(v[i])]

\* C3: the total checkout_cart returns is the sum of price times quantity over
\* exactly the cart lines whose product is in the catalog, and the items are one
\* snapshot per such line with subtotal = price times quantity; so for the cart
\* file of every state, and for every checkout that was answered.
C3_CheckoutTotal ==
    /\ LET c == checkout_cart(cart_file)
       IN  TotalsValidLines(c.cart_db, c.total, c.detailed_items)
    /\ (last.op = "checkout" /\ last.status = 200)
       => TotalsValidLines(last.totalled, last.total, last.items)

\* a checkout was answered whose cart held two lines of catalog products, one of
\* them at a price the catalog no longer has
C3_Witness ==
    /\ last.op = "checkout" /\ last.status = 200
    /\ Len(last.totalled) = 2 /\ Len(last.items) = 2
    /\ \E i \in 1..2 :
          last.totalled[i].item.price
              # products_db[last.totalled[i].item.product_id].price
    /\ last.total = SumLines(last.totalled)

\* C4: whenever the in-memory cart holds no lines, checkout answers 400 and
\* neither clears nor saves; and no answered checkout returns a total that
\* checkout_cart computed, after its reload, from a cart without lines.
C4_EmptyCheckoutRejected ==
    [][\A o \in SaveOutcomes :
          checkout(o)
          => /\ cart_db = EmptyDict
                => (last'.status = 400 /\ UNCHANGED <<cart_db, cart_file>>)
             /\ last'.status = 200 => last'.totalled # EmptyDict]_vars

\* C5: after clear_cart the in-memory cart and the cart file hold no lines, and
\* an add_to_cart(p, q) that follows leaves a cart that holds only the line of p
\* with quantity q.
C5_ClearEmptiesBoth ==
    [][/\ \A o \in SaveOutcomes :
             empty_cart(o)
             => (cart_db' = EmptyDict /\ load_cart_data(cart_file') = EmptyDict)
       /\ \A p \in DOMAIN products_db, q \in 1..MaxQty, o \in SaveOutcomes :
             (last.op = "empty" /\ add_to_cart_endpoint(p, q, o))
             => /\ Keys(cart_db') = {str(p)}
                /\ QuantityOf(cart_db', str(p)) = q]_vars

\* C6: checkout_cart does not mutate the cart: wherever the checkout handler
\* calls it, the in-memory cart and the cart file are after the call what they
\* were before it.
C6_CheckoutCartKeepsCart ==
    get_cart(cart_db) # EmptyDict
    => /\ checkout_cart(cart_file).cart_db = cart_db
       /\ checkout_cart(cart_file).cart_file = cart_file

\* every line of d is a line of e, with at least its quantity
LinesKept(d, e) ==
    \A k \in Keys(d) : k \in Keys(e) /\ QuantityOf(e, k) >= QuantityOf(d, k)

\* C7: a line stays in the cart, its quantity never decreasing, until a full
\* clear removes it: no add and no view removes or lowers a line, nor does the
\* checkout_cart step of a checkout (before its clear_cart).
C7_LinesStayUntilClear ==
    [][/\ ( \/ \E product_id \in RequestIds, quantity \in 1..MaxQty,
                  o \in SaveOutcomes :
                      add_to_cart_endpoint(product_id, quantity, o)
            \/ view_cart
            \/ view_cart_as_list )
          => LinesKept(cart_db, cart_db')
       /\ \A o \in SaveOutcomes :
             (checkout(o) /\ last'.status = 200)
             => LinesKept(cart_db, last'.totalled)]_vars

\* C9: an add of a catalog product with a quantity above 0 is answered 200 with
\* the resulting line: current_quantity is the quantity the cart now holds for
\* the product, product_id and product_name are those of the line.
C9_AddAnswersLine ==
    (last.op = "add" /\ InCatalog(last.product_id))
    => /\ last.status = 200
       /\ Len(last.line) = 1
       /\ last.line[1].current_quantity
              = QuantityOf(cart_db, str(last.product_id))
       /\ last.line[1].product_id = last.product_id
       /\ last.line[1].product_name = Item(cart_db, str(last.product_id)).name

\* C10: a line whose product is not in the catalog never makes checkout_cart
\* fail: a checkout of a non-empty cart is answered 200, no item of the answer
\* is for such a line, every other line has its item, and the total is that of
\* the other lines alone.
C10_StaleLineSkipped ==
    /\ (last.op = "checkout" /\ last.had > 0) => last.status = 200
    /\ (last.op = "checkout" /\ last.status = 200)
       => /\ \A i \in 1..Len(last.items) : InCatalog(last.items[i].product_id)
          /\ \A i \in 1..Len(last.totalled) :
                ValidLine(last.totalled[i])
                <=> \E j \in 1..Len(last.items) :
                       /\ last.items[j].product_id
                              = last.totalled[i].item.product_id
                       /\ last.items[j].quantity
                              = last.totalled[i].item.quantity
          /\ last.total = SumLines(SelectSeq(last.totalled, ValidLine))

\* a checkout was answered whose cart held a line of a product that is not in
\* the catalog next to a line of a catalog product
C10_Witness ==
    /\ last.op = "checkout" /\ last.status = 200
    /\ \E i, j \in 1..Len(last.totalled) :
          /\ ~ValidLine(last.totalled[i])
          /\ ValidLine(last.totalled[j])
    /\ Len(last.items) = Len(last.totalled) - 1
    /\ last.total > 0

\* the quantity the cart file holds for a product
Persisted(product_id) == QuantityOf(load_cart_data(cart_file), str(product_id))

\* C8: two adds on one cart file whose load, update and save steps interleave
\* without a lock can lose an update.  Each add saves the quantity it loaded
\* plus its own, whatever was saved since its load, and its save replaces the
\* whole file: while the worker that wrote last is idle, the file is its cart.
C8_LastWriterWins ==
    \A w \in Workers :
        /\ (wpc[w] = "idle" /\ wreq[w].ret # <<>>)
           => /\ wreq[w].ret[1].quantity = wreq[w].seen + wreq[w].quantity
              /\ Item(wmem[w], str(wreq[w].product_id)) = wreq[w].ret[1]
        /\ (wpc[w] = "idle" /\ writer = w /\ wreq[w].save = "ok")
           => cart_file = FileOf(wmem[w])

\* both workers' adds of one product returned, their saves done, and the file
\* holds less of the product than the two adds added
C8_LostUpdate ==
    /\ \A w \in Workers :
          wpc[w] = "idle" /\ wreq[w].ret # <<>> /\ wreq[w].save = "ok"
    /\ wreq[1].product_id = wreq[2].product_id
    /\ added[wreq[1].product_id] = wreq[1].quantity + wreq[2].quantity
    /\ Persisted(wreq[1].product_id) < added[wreq[1].product_id]
    /\ cart_file = FileOf(wmem[writer])

\* a cart line as the data model has it: stored under the string form of its
\* product_id, a positive quantity, a product of the catalog
CartLine(e) ==
    /\ e.key = str(e.item.product_id)
    /\ e.item.quantity \in Nat \ {0}
    /\ InCatalog(e.item.product_id)

\* every entry of d is a cart line and no two entries are for one product
CartDataModel(d) ==
    /\ \A i \in 1..Len(d) : CartLine(d[i])
    /\ \A i, j \in 1..Len(d) :
          (d[i].key = d[j].key \/ d[i].item.product_id = d[j].item.product_id)
          => i = j

\* C11: started with an empty cart, after any adds (quantity > 0), views,
\* checkouts and clears, every line of the cart, in memory and in the file, is
\* stored under str(product_id), there is one line per product at most, every
\* quantity is a positive integer and every product_id is in the catalog.
C11_CartDataModel ==
    /\ CartDataModel(cart_db)
    /\ CartDataModel(load_cart_data(cart_file))

\* the cart holds a line that two adds of one product built, and the file holds
\* it too
C11_Witness ==
    /\ last.op = "add" /\ last.had > 0
    /\ Len(cart_db) = 1
    /\ cart_db[1].item.quantity = last.had + last.quantity
    /\ cart_db[1].item.updated_at = 2
    /\ cart_file = FileOf(cart_db)

\* C12: an accepted checkout leaves no line in the in-memory cart and none in
\* the cart file; a cart view that directly follows it returns an empty cart
\* and a checkout that directly follows it is answered 400.
C12_CheckoutClears ==
    [][/\ \A o \in SaveOutcomes :
             (checkout(o) /\ last'.status = 200)
             => (cart_db' = EmptyDict /\ load_cart_data(cart_file') = EmptyDict)
       /\ (last.op = "checkout" /\ last.status = 200 /\ view_cart)
             => last'.body = EmptyDict
       /\ \A o \in SaveOutcomes :
             (last.op = "checkout" /\ last.status = 200 /\ checkout(o))
             => last'.status = 400]_vars

\* the items of a cart, as list(cart_db.values()) gives them
Values(d) == [i \in 1..Len(d) |-> d[i].item]

\* C15: in either entry point the cart views and the emptiness test of checkout
\* read the cart store as it is, the mapping cart.cart_db names: GET /cart/
\* returns it, GET /cart/items/ its values, and checkout answers 400 exactly
\* when it holds no line; so a view that directly follows a successful add of
\* product p holds the line of p, and a checkout that directly follows it is
\* not answered 400.
C15_ViewsReadCartStore ==
    [][/\ last'.op = "view" => last'.body = cart_db
       /\ last'.op = "view_list" => last'.items = Values(cart_db)
       /\ last'.op = "checkout"
          => (last'.status = 400 <=> cart_db = EmptyDict)
       /\ (last.op = "add" /\ last.ret # <<>> /\ last'.op = "view")
          => /\ str(last.product_id) \in Keys(last'.body)
             /\ Item(last'.body, str(last.product_id)) = last.ret[1]
       /\ (last.op = "add" /\ last.ret # <<>> /\ last'.op = "checkout")
          => last'.status # 400]_vars

----------------------------------------------------------------------------
(* Properties of the student service *)

\* the store and the file are after the step what they were before it
StudentsUntouched ==
    /\ students_db' = students_db
    /\ students_file' = students_file

\* C13: a create whose lower-cased name is a key of the store, the same name in
\* another letter case included, is answered 409 and leaves the store, so the
\* scores, average and grade of the record that is there, and the file as they
\* were.
C13_DuplicateCreateRejected ==
    [][(/\ student_last'.op = "create"
        /\ lower(student_last'.body_name) \in DOMAIN students_db)
       => /\ student_last'.status = 409
          /\ StudentsUntouched]_vars

\* a create was answered 409 whose name differs in letter case only from the
\* name of the record that is stored
C13_Witness ==
    /\ student_last.op = "create" /\ student_last.status = 409
    /\ lower(student_last.body_name) \in DOMAIN students_db
    /\ students_db[lower(student_last.body_name)].name # student_last.body_name
    /\ students_file = FileOf(students_db)

\* every record of db is stored under the lower-cased form of its own name
KeyedByLowerName(db) == \A k \in DOMAIN db : k = lower(db[k].name)

\* C20 as stated: started with an empty store, every record stays stored under
\* the lower-cased form of its name; every update whose body name differs,
\* ignoring case, from the path name is answered 400 and every update of an
\* absent name is answered 404, the store untouched in both.
C20_UpdateAnswers ==
    [][/\ KeyedByLowerName(students_db) /\ KeyedByLowerName(students_db')
       /\ student_last'.op = "update"
          => /\ lower(student_last'.body_name) # lower(student_last'.name)
                => (student_last'.status = 400 /\ StudentsUntouched)
             /\ lower(student_last'.name) \notin DOMAIN students_db
                => (student_last'.status = 404 /\ StudentsUntouched)]_vars

\* C20, amended: started with an empty store, every record stays stored under
\* the lower-cased form of its name; an update of an absent name is answered
\* 404 whatever its body, and an update of a stored name whose body name
\* differs, ignoring case, is answered 400, the store untouched in both.
C20_UpdateAnswersStored ==
    [][/\ KeyedByLowerName(students_db) /\ KeyedByLowerName(students_db')
       /\ student_last'.op = "update"
          => /\ (/\ lower(student_last'.name) \in DOMAIN students_db
                 /\ lower(student_last'.body_name) # lower(student_last'.name))
                => (student_last'.status = 400 /\ StudentsUntouched)
             /\ lower(student_last'.name) \notin DOMAIN students_db
                => (student_last'.status = 404 /\ StudentsUntouched)]_vars

\* an update with another name in its body was answered 400 while the store
\* holds a record whose name has capitals under its lower-cased key
C20_Witness ==
    /\ student_last.op = "update" /\ student_last.status = 400
    /\ lower(student_last.name) \in DOMAIN students_db
    /\ lower(student_last.body_name) # lower(student_last.name)
    /\ \E k \in DOMAIN students_db : students_db[k].name # k

----------------------------------------------------------------------------
(* Properties of the contact service *)

\* C14: a get, update or delete of an id that is not in the store is answered
\* 404 and leaves the store and next_id as they were; and once a delete of an
\* id was answered 204, every later get, update and delete of that id is
\* answered 404, whatever was created since.
C14_AbsentContact404 ==
    [][contact_last'.op \in {"get", "update", "delete"}
       => /\ contact_last'.contact_id \notin DOMAIN contacts_db
             => /\ contact_last'.status = 404
                /\ contacts_db' = contacts_db
                /\ contacts_next_id' = contacts_next_id
          /\ contact_last'.contact_id \in deleted_ids
             => contact_last'.status = 404]_vars

\* a get of a deleted id was answered 404 while the store holds a contact that
\* was created after the delete
C14_Witness ==
    /\ contact_last.op = "get" /\ contact_last.status = 404
    /\ contact_last.contact_id \in deleted_ids
    /\ \E k \in DOMAIN contacts_db : k > contact_last.contact_id
    /\ contacts_next_id = MaxContacts

\* every contact of db is stored under its own id
KeyedById(db) == \A k \in DOMAIN db : db[k].id = k

\* C17: every contact is stored under the key that is its id field; the creates
\* hand out the ids 1, 2, 3, ... in creation order, so no id is given twice,
\* deleted or not; an update that is answered 200 changes the name and the
\* email of its contact and nothing else: not its id, no other contact.
C17_ContactIds ==
    [][/\ KeyedById(contacts_db) /\ KeyedById(contacts_db')
       /\ contact_ids' = [i \in 1..Len(contact_ids') |-> i]
       /\ contact_last'.op = "create"
          => /\ contact_last'.contact_id = Len(contact_ids')
             /\ contact_last'.contact_id \notin DOMAIN contacts_db \cup deleted_ids
             /\ contact_last'.contact_id \in DOMAIN contacts_db'
       /\ (contact_last'.op = "update" /\ contact_last'.status = 200)
          => /\ DOMAIN contacts_db' = DOMAIN contacts_db
             /\ \A k \in DOMAIN contacts_db :
                   /\ contacts_db'[k].id = contacts_db[k].id
                   /\ k # contact_last'.contact_id
                      => contacts_db'[k] = contacts_db[k]]_vars

\* three contacts were created, the first was deleted, and an update of the
\* third was answered 200
C17_Witness ==
    /\ contact_ids = <<1, 2, 3>>
    /\ 1 \in deleted_ids
    /\ contact_last.op = "update" /\ contact_last.status = 200
    /\ contact_last.contact_id = 3
    /\ DOMAIN contacts_db = {2, 3}

----------------------------------------------------------------------------
(* Properties of the job application tracker *)

\* no two applications of db have one id, and n is above every id of db
FreshAbove(db, n) ==
    /\ \A i, j \in 1..Len(db) : db[i].id = db[j].id => i = j
    /\ \A i \in 1..Len(db) : db[i].id < n

\* C16: after startup and any creates the stored applications have pairwise
\* distinct ids and next_id is above every one of them; a create appends one
\* application whose id is the highest id there was plus one (1 for an empty
\* store); and no step changes or removes an application that is stored.
C16_ApplicationIds ==
    [][/\ FreshAbove(applications_db, applications_next_id)
       /\ FreshAbove(applications_db', applications_next_id')
       /\ Len(applications_db') >= Len(applications_db)
       /\ SubSeq(applications_db', 1, Len(applications_db)) = applications_db
       /\ application_last'.op = "create"
          => /\ Len(applications_db') = Len(applications_db) + 1
             /\ applications_db'[Len(applications_db')].id
                    = application_last'.app_id
             /\ application_last'.app_id
                    = IF applications_db = <<>> THEN 1
                      ELSE MaxId(applications_db) + 1]_vars

\* a create on the list an edited file gave, ids 3 and 1, was given the id 4
C16_Witness ==
    /\ application_last.op = "create" /\ application_last.app_id = 4
    /\ Len(applications_db) = 3
    /\ applications_db[1].id = 3 /\ applications_db[2].id = 1
    /\ applications_db[3].id = 4
    /\ applications_next_id = 5

----------------------------------------------------------------------------
(* Properties of the notes service *)

C19_StoredNotesValid ==
    /\ \A k \in DOMAIN notes_dir : Note(notes_dir[k], k)
    /\ (note_last.op = "get" /\ note_last.note_id \in DOMAIN notes_dir)
          => note_last.status = 200
    /\ note_last.op = "get_all" => note_last.status = 200

----------------------------------------------------------------------------
(* Persistence of the cart: what a save leaves in cart.json and what the   *)
(* next call reads back                                                     *)

\* a save that completed: the file holds the cart the process has in memory
SavedCartIsMemory ==
    (last'.op \in {"add", "empty", "checkout"} /\ last'.save = "ok")
    => cart_file' = FileOf(cart_db')

\* a save that failed: the call returned as if it had saved (add_to_cart its
\* line, clear_cart nothing), the handler of a clear or a checkout answered,
\* and the in-memory cart is the one the call built
FailedSaveSwallowed ==
    (last'.save \in SaveOutcomes \ {"ok"})
    => /\ last'.op = "add"
          => /\ Len(last'.ret) = 1
             /\ str(last'.product_id) \in Keys(cart_db')
             /\ last'.ret[1] = Item(cart_db', str(last'.product_id))
       /\ last'.op = "empty" => (last'.status = 204 /\ cart_db' = EmptyDict)
       /\ last'.op = "checkout" => (last'.status = 200 /\ cart_db' = EmptyDict)

\* add_to_cart and checkout_cart start from what load_cart_data reads in the
\* file, whatever the process held in memory
ReloadsFile ==
    LET loaded == load_cart_data(cart_file)
        product_id_str == str(last'.product_id)
    IN  /\ (last'.op = "add" /\ last'.ret = <<>>) => cart_db' = loaded
        /\ (last'.op = "add" /\ last'.ret # <<>>)
              => /\ last'.ret[1].quantity =
                        QuantityOf(loaded, product_id_str) + last'.quantity
                 /\ cart_db' = SetItem(loaded, product_id_str, last'.ret[1])
        /\ (last'.op = "checkout" /\ last'.status = 200)
              => last'.totalled = loaded

\* C21 as stated: with one process, a save that completes leaves the file equal
\* to the in-memory cart after add_to_cart and clear_cart; a save that fails is
\* swallowed and the call returns normally, the file keeps the cart it held
\* before that call, and the next add_to_cart or checkout_cart replaces the
\* in-memory cart by that older content of the file.
C21_CartPersistence ==
    [][/\ SavedCartIsMemory
       /\ FailedSaveSwallowed
       /\ (last'.save \in SaveOutcomes \ {"ok"})
             => load_cart_data(cart_file') = load_cart_data(cart_file)
       /\ ReloadsFile]_vars

\* C21, amended: with one process, a save that completes leaves the file equal
\* to the in-memory cart after add_to_cart and clear_cart; a save that fails is
\* swallowed and the call returns normally; the file then is as it was where it
\* could not be opened, and gives an empty cart where the write failed after
\* open(CART_FILE, "w") had truncated it; the next add_to_cart or checkout_cart
\* replaces the in-memory cart by what load_cart_data reads in that file.
C21_CartPersistenceAsLeft ==
    [][/\ SavedCartIsMemory
       /\ FailedSaveSwallowed
       /\ last'.save = "open_failed" => cart_file' = cart_file
       /\ last'.save = "write_failed" => load_cart_data(cart_file') = EmptyDict
       /\ ReloadsFile]_vars

\* an add found a line of its product in memory and none in the file, which a
\* failed save had left behind: it returned a line with its own quantity only,
\* and its own save failed after truncating the file
C21_Witness ==
    /\ last.op = "add" /\ last.save = "write_failed"
    /\ last.had > 0
    /\ Len(last.ret) = 1
    /\ last.ret[1].quantity = last.quantity
    /\ Keys(cart_db) = {str(last.product_id)}
    /\ cart_file = CorruptFile

====
